---- MODULE Spec2Model ----
(***************************************************************************)
(* The mutation handlers of the SNS application (app/api/posts,            *)
(* app/api/posts/[postId], app/api/comments, app/api/likes,                *)
(* app/api/follows) as a state machine over the rows of the store and the  *)
(* objects of the file store.  A handler that issues one store write is    *)
(* one action; POST /follows, whose existence check and insert are two     *)
(* awaited store calls, is two steps of a request in flight.                *)
(***************************************************************************)
EXTENDS Naturals, Sequences, FiniteSets, Bags, TLC

(* ------------------------------ bounds -------------------------------- *)

\* Requests served in one behaviour.
MaxRequests == 3
\* Requests served in one behaviour that mixes the handlers of every route.
MaxMixedRequests == 2
\* Posts in the store when the feed is read.
MaxFeedPosts == 12
\* Comments on one post when it is read.
MaxFeedComments == 3
\* Clicks on one button in one behaviour.
MaxClicks == 3
\* Calls of fetch that one PostFeed makes.
MaxFeedRequests == 4

(* ----------------------------- identities ----------------------------- *)

\* auth() gave no userId.
NoClerk == ""
\* A missing (falsy) id: a body without the field, or a lookup that found nothing.
NoId == ""
\* External identities that sign in; clerk_x has no row in users.
Clerks == {"clerk_a", "clerk_b", "clerk_x"}
Callers == Clerks \cup {NoClerk}
UserIds == {"u1", "u2"}
\* The users table: clerk_id -> id.
UsersTable == [c \in {"clerk_a", "clerk_b"} |-> IF c = "clerk_a" THEN "u1" ELSE "u2"]

\* Store calls of one invocation that meet an infrastructure failure.
NoFault == "none"

VARIABLES
    posts,      \* rows of posts: [id, user_id, image_url]
    files,      \* object paths in bucket "posts", each a sequence of segments
    comments,   \* rows of comments: [id, post_id, user_id, content]
    likes,      \* bag of <<post_id, user_id>>: the rows of likes
    likeOps,    \* the writes the store applied to likes, oldest first
    follows,    \* bag of <<follower_id, following_id>>: the rows of follows
    nextId,     \* source of generated ids and file names
    served,     \* requests of the mutation handlers answered so far
    resp,       \* the request answered last and its response
    inflight,   \* POST /follows requests between their check and their insert
    likeButton, \* one LikeButton: its state, its ref and its fetches in flight
    followButton, \* one FollowButton: its state and its fetches in flight
    postFeed,   \* one PostFeed: its state, its last render and its fetches in flight
    api         \* one call of handleApiResponse: its response and what it returned

vars == <<posts, files, comments, likes, likeOps, follows, nextId, served, resp, inflight,
          likeButton, followButton, postFeed, api>>

serverVars == <<posts, files, comments, likes, likeOps, follows, nextId, served, resp,
                inflight>>
clientVars == <<likeButton, followButton, postFeed, api>>

Procs == {1, 2}

(* ------------------------------ requests ------------------------------ *)

\* formData.get("image") of a form without the field.
NoImage == [present |-> FALSE, size |-> 0, type |-> ""]

\* A request as the handler reads it.
Request(op, clerk, parses, id) ==
    [op |-> op, clerk |-> clerk, parses |-> parses, id |-> id,
     content |-> <<>>, image |-> NoImage, capLen |-> 0, limit |-> 0, offset |-> 0]

\* One awaited call to the store or the file store and how it ended.
Call(name, result) == [call |-> name, result |-> result]

WriteCalls == {"storage.upload", "storage.remove", "posts.insert", "posts.delete",
               "comments.insert", "comments.delete", "likes.upsert",
               "likes.delete", "follows.insert", "follows.delete"}

\* NextResponse.json({error, success: false}, {status}) or ({data, success: true}).
Response(req, status, error, calls) ==
    [req |-> req, status |-> status, error |-> error, calls |-> calls, data |-> <<>>]

Reply(req, status, error, calls) ==
    /\ resp' = Response(req, status, error, calls)
    /\ served' = served + 1

InFlight == {p \in Procs : inflight[p].pc /= "idle"}

\* A new request is taken while the behaviour's budget lasts.
CanServe == served + Cardinality(InFlight) < MaxRequests

(* -------------------------- identity resolver ------------------------- *)

GetSupabaseUserId_ErrorAsUser(clerk, fault) ==
    IF clerk \in DOMAIN UsersTable THEN UsersTable[clerk] ELSE "u1"

\* getSupabaseUserId: the row's id, or null when the select fails or finds no row.
GetSupabaseUserId(clerk, fault) ==
    IF fault = "users.select" \/ clerk \notin DOMAIN UsersTable
    THEN NoId
    ELSE UsersTable[clerk]

\* The select of getSupabaseUserId as an awaited call: .single() finds the row,
\* finds none, or fails.
LookupCall(clerk, fault) ==
    Call("users.select",
         IF fault = "users.select" THEN "error"
         ELSE IF clerk \notin DOMAIN UsersTable THEN "no row"
         ELSE "ok")

(* ------------------------------- store -------------------------------- *)

Rows(bag, pair) == IF pair \in DOMAIN bag THEN bag[pair] ELSE 0

AddRow(bag, pair) == bag (+) SetToBag({pair})

RemoveRows(bag, pair) == [x \in DOMAIN bag \ {pair} |-> bag[x]]

PostExists(postId) == \E p \in posts : p.id = postId

(* ------------------------------- likes -------------------------------- *)

UpsertLike_Insert(postId, userId) == AddRow(likes, <<postId, userId>>)

UpsertLike_UpdateOnly(postId, userId) == likes

\* .upsert({post_id, user_id}, {onConflict: "post_id,user_id"}): the row of the
\* pair is updated when there is one and inserted when there is none.
UpsertLike(postId, userId) ==
    IF Rows(likes, <<postId, userId>>) > 0
    THEN likes
    ELSE AddRow(likes, <<postId, userId>>)

DeleteLike_None(postId, userId) == likes

DeleteLike_AllOfPost(postId, userId) ==
    [x \in {y \in DOMAIN likes : y[1] /= postId} |-> likes[x]]

\* .delete().eq("post_id", postId).eq("user_id", userId)
DeleteLike(postId, userId) == RemoveRows(likes, <<postId, userId>>)

\* A write of likes that the store applied.
LikeOp(op, postId, userId) == [op |-> op, pair |-> <<postId, userId>>]

UpsertFailure_Generic(code) == [status |-> 500, error |-> "Failed to add like"]

\* The answer to an upsert that failed: error.code === "23505" is 409 "Already
\* liked", any other error 500 "Failed to add like".
UpsertFailure(code) ==
    IF code = "23505"
    THEN [status |-> 409, error |-> "Already liked"]
    ELSE [status |-> 500, error |-> "Failed to add like"]

LikeFaults == {NoFault, "users.select", "likes"}
\* The upsert may also fail with an error whose code is 23505.
LikeUpsertFaults == LikeFaults \cup {"likes.23505"}

PostLikes(clerk, body, fault) ==
    LET req == Request("POST /likes", clerk, body.parses, body.id)
        parses == body.parses
        postId == body.id
        uid == GetSupabaseUserId(clerk, fault)
    IN  /\ CanServe
        /\ UNCHANGED <<posts, files, comments, follows, nextId, inflight>>
        /\ IF clerk = NoClerk
           THEN Reply(req, 401, "Unauthorized", <<>>) /\ UNCHANGED <<likes, likeOps>>
           ELSE IF ~parses
           THEN Reply(req, 500, "Internal server error", <<>>) /\ UNCHANGED <<likes, likeOps>>
           ELSE IF postId = NoId
           THEN Reply(req, 400, "postId is required", <<>>) /\ UNCHANGED <<likes, likeOps>>
           ELSE IF uid = NoId
           THEN /\ Reply(req, 404, "User not found in database", <<LookupCall(clerk, fault)>>)
                /\ UNCHANGED <<likes, likeOps>>
           ELSE IF fault = "likes.23505"
           THEN /\ Reply(req, UpsertFailure("23505").status, UpsertFailure("23505").error,
                         <<LookupCall(clerk, fault), Call("likes.upsert", "error 23505")>>)
                /\ UNCHANGED <<likes, likeOps>>
           ELSE IF fault = "likes" \/ ~PostExists(postId)
           THEN /\ Reply(req, UpsertFailure("").status, UpsertFailure("").error,
                         <<LookupCall(clerk, fault), Call("likes.upsert", "error")>>)
                /\ UNCHANGED <<likes, likeOps>>
           ELSE /\ likes' = UpsertLike(postId, uid)
                /\ likeOps' = Append(likeOps, LikeOp("POST /likes", postId, uid))
                /\ Reply(req, 200, "", <<LookupCall(clerk, fault), Call("likes.upsert", "ok")>>)

DeleteLikes(clerk, body, fault) ==
    LET req == Request("DELETE /likes", clerk, body.parses, body.id)
        parses == body.parses
        postId == body.id
        uid == GetSupabaseUserId(clerk, fault)
    IN  /\ CanServe
        /\ UNCHANGED <<posts, files, comments, follows, nextId, inflight>>
        /\ IF clerk = NoClerk
           THEN Reply(req, 401, "Unauthorized", <<>>) /\ UNCHANGED <<likes, likeOps>>
           ELSE IF ~parses
           THEN Reply(req, 500, "Internal server error", <<>>) /\ UNCHANGED <<likes, likeOps>>
           ELSE IF postId = NoId
           THEN Reply(req, 400, "postId is required", <<>>) /\ UNCHANGED <<likes, likeOps>>
           ELSE IF uid = NoId
           THEN /\ Reply(req, 404, "User not found in database", <<LookupCall(clerk, fault)>>)
                /\ UNCHANGED <<likes, likeOps>>
           ELSE IF fault = "likes"
           THEN /\ Reply(req, 500, "Failed to remove like",
                         <<LookupCall(clerk, fault), Call("likes.delete", "error")>>)
                /\ UNCHANGED <<likes, likeOps>>
           ELSE /\ likes' = DeleteLike(postId, uid)
                /\ likeOps' = Append(likeOps, LikeOp("DELETE /likes", postId, uid))
                /\ Reply(req, 200, "", <<LookupCall(clerk, fault), Call("likes.delete", "ok")>>)

(* ------------------------------ comments ------------------------------ *)

IsWhitespace(ch) == ch = " "

RECURSIVE TrimStart(_)
TrimStart(s) ==
    IF s /= <<>> /\ IsWhitespace(Head(s)) THEN TrimStart(Tail(s)) ELSE s

RECURSIVE TrimEnd(_)
TrimEnd(s) ==
    IF s /= <<>> /\ IsWhitespace(s[Len(s)])
    THEN TrimEnd(SubSeq(s, 1, Len(s) - 1))
    ELSE s

\* String.prototype.trim
Trim(s) == TrimEnd(TrimStart(s))

\* Request contents, as sequences of characters: blank ones, and text with
\* whitespace before, after and inside it; <<>> is also what a body without the
\* field reads as (both are falsy).
Contents == {<<>>, <<" ">>, <<" ", " ">>, <<"a">>, <<" ", "a">>, <<"a", " ">>,
             <<" ", "a", " ">>, <<"a", " ", "a">>}

CommentRow(commentId) == CHOOSE c \in comments : c.id = commentId
CommentExists(commentId) == \E c \in comments : c.id = commentId

StoredContent_Untrimmed(content) == content

\* The content column of the inserted row: content: trimmedContent.
StoredContent(content) == Trim(content)

ContentRejected_OnlyMissing(content) == content = <<>>

\* !content, then trimmedContent.length === 0.
ContentRejected(content) == content = <<>> \/ Len(Trim(content)) = 0

CommentFaults == {NoFault, "users.select", "comments"}
CommentDeleteFaults == CommentFaults \cup {"comments.select"}

PostComments(clerk, body, fault) ==
    LET parses == body.parses
        postId == body.id
        content == body.content
        req == [Request("POST /comments", clerk, parses, postId)
                    EXCEPT !.content = content]
        uid == GetSupabaseUserId(clerk, fault)
        row == [id |-> "c" \o ToString(nextId), post_id |-> postId,
                user_id |-> uid, content |-> StoredContent(content),
                created_at |-> nextId]
    IN  /\ CanServe
        /\ UNCHANGED <<posts, files, likes, likeOps, follows, inflight>>
        /\ IF clerk = NoClerk
           THEN Reply(req, 401, "Unauthorized", <<>>) /\ UNCHANGED <<comments, nextId>>
           ELSE IF ~parses
           THEN /\ Reply(req, 500, "Internal server error", <<>>)
                /\ UNCHANGED <<comments, nextId>>
           ELSE IF postId = NoId \/ content = <<>>
           THEN /\ Reply(req, 400, "postId and content are required", <<>>)
                /\ UNCHANGED <<comments, nextId>>
           ELSE IF ContentRejected(content)
           THEN /\ Reply(req, 400, "Comment content cannot be empty", <<>>)
                /\ UNCHANGED <<comments, nextId>>
           ELSE IF uid = NoId
           THEN /\ Reply(req, 404, "User not found in database", <<LookupCall(clerk, fault)>>)
                /\ UNCHANGED <<comments, nextId>>
           ELSE IF fault = "comments" \/ ~PostExists(postId)
           THEN /\ Reply(req, 500, "Failed to create comment",
                         <<LookupCall(clerk, fault), Call("comments.insert", "error")>>)
                /\ UNCHANGED <<comments, nextId>>
           ELSE /\ comments' = comments \cup {row}
                /\ nextId' = nextId + 1
                /\ Reply(req, 200, "",
                         <<LookupCall(clerk, fault), Call("comments.insert", "ok")>>)

DeleteComments_DeleteBeforeOwnerCheck(clerk, body, fault) ==
    LET parses == body.parses
        commentId == body.id
        req == Request("DELETE /comments", clerk, parses, commentId)
        uid == IF fault = "users.select" \/ clerk \notin DOMAIN UsersTable
               THEN NoId ELSE UsersTable[clerk]
        lookup == LookupCall(clerk, fault)
        row == CHOOSE c \in comments : c.id = commentId
    IN  /\ CanServe
        /\ UNCHANGED <<posts, files, likes, likeOps, follows, nextId, inflight>>
        /\ IF clerk = NoClerk
           THEN Reply(req, 401, "Unauthorized", <<>>) /\ UNCHANGED comments
           ELSE IF ~parses
           THEN Reply(req, 500, "Internal server error", <<>>) /\ UNCHANGED comments
           ELSE IF commentId = NoId
           THEN Reply(req, 400, "commentId is required", <<>>) /\ UNCHANGED comments
           ELSE IF uid = NoId
           THEN /\ Reply(req, 404, "User not found in database", <<lookup>>)
                /\ UNCHANGED comments
           ELSE IF fault = "comments.select" \/ ~(\E c \in comments : c.id = commentId)
           THEN /\ Reply(req, 404, "Comment not found",
                         <<lookup, Call("comments.select", "error")>>)
                /\ UNCHANGED comments
           ELSE IF fault = "comments"
           THEN /\ Reply(req, 500, "Failed to delete comment",
                         <<lookup, Call("comments.select", "ok"),
                           Call("comments.delete", "error")>>)
                /\ UNCHANGED comments
           ELSE /\ comments' = comments \ {row}
                /\ IF row.user_id /= uid
                   THEN Reply(req, 403, "You can only delete your own comments",
                              <<lookup, Call("comments.select", "ok"),
                                Call("comments.delete", "ok")>>)
                   ELSE Reply(req, 200, "",
                              <<lookup, Call("comments.select", "ok"),
                                Call("comments.delete", "ok")>>)

MayDeleteComment_Anyone(ownerId, actingId) == TRUE

\* comment.user_id !== supabaseUserId is refused.
MayDeleteComment(ownerId, actingId) == ownerId = actingId

DeleteComments(clerk, body, fault) ==
    LET parses == body.parses
        commentId == body.id
        req == Request("DELETE /comments", clerk, parses, commentId)
        uid == GetSupabaseUserId(clerk, fault)
        lookup == LookupCall(clerk, fault)
    IN  /\ CanServe
        /\ UNCHANGED <<posts, files, likes, likeOps, follows, nextId, inflight>>
        /\ IF clerk = NoClerk
           THEN Reply(req, 401, "Unauthorized", <<>>) /\ UNCHANGED comments
           ELSE IF ~parses
           THEN Reply(req, 500, "Internal server error", <<>>) /\ UNCHANGED comments
           ELSE IF commentId = NoId
           THEN Reply(req, 400, "commentId is required", <<>>) /\ UNCHANGED comments
           ELSE IF uid = NoId
           THEN /\ Reply(req, 404, "User not found in database", <<lookup>>)
                /\ UNCHANGED comments
           ELSE IF fault = "comments.select" \/ ~CommentExists(commentId)
           THEN /\ Reply(req, 404, "Comment not found",
                         <<lookup, Call("comments.select", "error")>>)
                /\ UNCHANGED comments
           ELSE IF ~MayDeleteComment(CommentRow(commentId).user_id, uid)
           THEN /\ Reply(req, 403, "You can only delete your own comments",
                         <<lookup, Call("comments.select", "ok")>>)
                /\ UNCHANGED comments
           ELSE IF fault = "comments"
           THEN /\ Reply(req, 500, "Failed to delete comment",
                         <<lookup, Call("comments.select", "ok"),
                           Call("comments.delete", "error")>>)
                /\ UNCHANGED comments
           ELSE /\ comments' = comments \ {CommentRow(commentId)}
                /\ Reply(req, 200, "",
                         <<lookup, Call("comments.select", "ok"),
                           Call("comments.delete", "ok")>>)


(* ------------------------------ follows ------------------------------- *)

\* What the store answers to the insert of a follows row: the foreign key of
\* following_id (23503) and the uniqueness of the ordered pair (23505).
FollowInsertResult(followerId, followingId, fault) ==
    IF fault = "follows" THEN "error"
    ELSE IF followingId \notin UserIds THEN "23503"
    ELSE IF Rows(follows, <<followerId, followingId>>) > 0 THEN "23505"
    ELSE "ok"

\* followError.message
StoreMessage(result) ==
    CASE result = "23505" -> "duplicate key value violates unique constraint"
      [] result = "23503" -> "insert or update violates foreign key constraint"
      [] OTHER -> "connection failure"

\* error: `Failed to follow user: ${followError.message || "Unknown error"}`
FollowError(result) == "Failed to follow user: " \o StoreMessage(result)

AlreadyFollowing_Never(followerId, followingId) == FALSE

\* existingFollow: the select of the pair's row found one.
AlreadyFollowing(followerId, followingId) == Rows(follows, <<followerId, followingId>>) > 0

IsSelfFollow_Never(followerId, followingId) == FALSE

\* followerId === followingId
IsSelfFollow(followerId, followingId) == followerId = followingId

FollowFaults == {NoFault, "users.select", "follows"}

\* POST /follows up to the answer of its existence check.
PostFollowsCheck(p, clerk, body, fault) ==
    LET parses == body.parses
        followingId == body.id
        req == Request("POST /follows", clerk, parses, followingId)
        followerId == GetSupabaseUserId(clerk, fault)
        lookup == LookupCall(clerk, fault)
    IN  /\ CanServe
        /\ inflight[p].pc = "idle"
        /\ UNCHANGED <<posts, files, comments, likes, likeOps, follows, nextId>>
        /\ IF clerk = NoClerk
           THEN Reply(req, 401, "Unauthorized", <<>>) /\ UNCHANGED inflight
           ELSE IF followerId = NoId
           THEN /\ Reply(req, 404, "User not found in database", <<lookup>>)
                /\ UNCHANGED inflight
           ELSE IF ~parses
           THEN /\ Reply(req, 500, "Internal server error", <<lookup>>)
                /\ UNCHANGED inflight
           ELSE IF followingId = NoId
           THEN /\ Reply(req, 400, "followingId is required", <<lookup>>)
                /\ UNCHANGED inflight
           ELSE IF IsSelfFollow(followerId, followingId)
           THEN /\ Reply(req, 400, "Cannot follow yourself", <<lookup>>)
                /\ UNCHANGED inflight
           ELSE IF fault = "follows"
           THEN /\ Reply(req, 500, "Failed to check follow status",
                         <<lookup, Call("follows.select", "error")>>)
                /\ UNCHANGED inflight
           ELSE IF AlreadyFollowing(followerId, followingId)
           THEN /\ Reply(req, 400, "Already following this user",
                         <<lookup, Call("follows.select", "ok")>>)
                /\ UNCHANGED inflight
           ELSE /\ inflight' = [inflight EXCEPT ![p] =
                        [pc |-> "checked", req |-> req, followerId |-> followerId,
                         calls |-> <<lookup, Call("follows.select", "ok")>>]]
                /\ UNCHANGED <<served, resp>>

\* POST /follows from its insert to its response.
PostFollowsInsert(p, fault) ==
    LET req == inflight[p].req
        followerId == inflight[p].followerId
        result == FollowInsertResult(followerId, req.id, fault)
        calls == Append(inflight[p].calls, Call("follows.insert", result))
    IN  /\ inflight[p].pc = "checked"
        /\ inflight' = [inflight EXCEPT ![p] = [pc |-> "idle"]]
        /\ UNCHANGED <<posts, files, comments, likes, likeOps, nextId>>
        /\ IF result = "ok"
           THEN /\ follows' = AddRow(follows, <<followerId, req.id>>)
                /\ Reply(req, 200, "", calls)
           ELSE /\ Reply(req, 500, FollowError(result), calls)
                /\ UNCHANGED follows

DeleteFollows(clerk, body, fault) ==
    LET parses == body.parses
        followingId == body.id
        req == Request("DELETE /follows", clerk, parses, followingId)
        followerId == GetSupabaseUserId(clerk, fault)
        lookup == LookupCall(clerk, fault)
    IN  /\ CanServe
        /\ UNCHANGED <<posts, files, comments, likes, likeOps, nextId, inflight>>
        /\ IF clerk = NoClerk
           THEN Reply(req, 401, "Unauthorized", <<>>) /\ UNCHANGED follows
           ELSE IF followerId = NoId
           THEN /\ Reply(req, 404, "User not found in database", <<lookup>>)
                /\ UNCHANGED follows
           ELSE IF ~parses
           THEN /\ Reply(req, 500, "Internal server error", <<lookup>>)
                /\ UNCHANGED follows
           ELSE IF followingId = NoId
           THEN /\ Reply(req, 400, "followingId is required", <<lookup>>)
                /\ UNCHANGED follows
           ELSE IF fault = "follows"
           THEN /\ Reply(req, 500, "Failed to unfollow user: " \o StoreMessage("error"),
                         <<lookup, Call("follows.delete", "error")>>)
                /\ UNCHANGED follows
           ELSE /\ follows' = RemoveRows(follows, <<followerId, followingId>>)
                /\ Reply(req, 200, "", <<lookup, Call("follows.delete", "ok")>>)


(* ------------------------------- posts -------------------------------- *)

MAX_FILE_SIZE == 5 * 1024 * 1024
MAX_CAPTION_LENGTH == 2200

ImageTypes == {"image/png", "image/jpeg"}
\* imageFile.type.startsWith("image/")
IsImageType(type) == type \in ImageTypes

Images == {NoImage,
           [present |-> TRUE, size |-> MAX_FILE_SIZE, type |-> "image/png"],
           [present |-> TRUE, size |-> MAX_FILE_SIZE + 1, type |-> "image/png"],
           [present |-> TRUE, size |-> 1024, type |-> "text/plain"]}

\* caption.length of the form's caption; 0 is an absent or empty caption (null).
CaptionLengths == {0, MAX_CAPTION_LENGTH, MAX_CAPTION_LENGTH + 1}

CaptionTooLong_OffByOne(capLen) == capLen /= 0 /\ capLen >= MAX_CAPTION_LENGTH

\* caption && caption.length > MAX_CAPTION_LENGTH
CaptionTooLong(capLen) == capLen /= 0 /\ capLen > MAX_CAPTION_LENGTH

\* `${clerkUserId}/${fileName}`, the generated file name being unique.
FilePath(clerk, n) == <<clerk, "f" \o ToString(n) \o ".jpg">>

\* getPublicUrl(filePath) of bucket posts, as the segments of the URL's pathname
\* split at "/": /storage/v1/object/public/posts/<filePath>.
PublicUrl(filePath) == <<"", "storage", "v1", "object", "public", "posts">> \o filePath

\* Array.prototype.indexOf, counted from 1; 0 when absent.
IndexOf(seq, x) ==
    IF \E i \in 1..Len(seq) : seq[i] = x
    THEN CHOOSE i \in 1..Len(seq) : seq[i] = x /\ \A j \in 1..(i - 1) : seq[j] /= x
    ELSE 0

\* extractFilePathFromUrl: the segments after "public"; <<>> stands for null.
ExtractFilePathFromUrl_InBucket(imageUrl) ==
    LET publicIndex == IndexOf(imageUrl, "public")
    IN  IF publicIndex = 0 \/ publicIndex + 1 >= Len(imageUrl)
        THEN <<>>
        ELSE SubSeq(imageUrl, publicIndex + 2, Len(imageUrl))

ExtractFilePathFromUrl(imageUrl) ==
    LET publicIndex == IndexOf(imageUrl, "public")
    IN  IF publicIndex = 0 \/ publicIndex = Len(imageUrl)
        THEN <<>>
        ELSE SubSeq(imageUrl, publicIndex + 1, Len(imageUrl))

PostRow(postId) == CHOOSE r \in posts : r.id = postId

\* created_at of a row the store inserts: the store's clock at the insert.
CreatedAt(n) == n

RollbackUpload_Skipped(stored, filePath, removeResult) ==
    [files |-> stored, calls |-> <<Call("posts.insert", "error")>>]

\* The branch of postError: after the failed insert the uploaded file is removed;
\* the handler does not read what remove answers.  stored is the bucket after
\* the upload.
RollbackUpload(stored, filePath, removeResult) ==
    [files |-> IF removeResult = "ok" THEN stored \ {filePath} ELSE stored,
     calls |-> <<Call("posts.insert", "error"), Call("storage.remove", removeResult)>>]

PostFaults == {NoFault, "users.select", "storage.upload", "posts.insert",
               "posts.insert+storage.remove"}

PostPosts(clerk, form, fault) ==
    LET parses == form.parses
        imageFile == form.image
        capLen == form.capLen
        req == [Request("POST /posts", clerk, parses, NoId)
                    EXCEPT !.image = imageFile, !.capLen = capLen]
        uid == GetSupabaseUserId(clerk, fault)
        lookup == LookupCall(clerk, fault)
        filePath == FilePath(clerk, nextId)
        row == [id |-> "p" \o ToString(nextId), user_id |-> uid,
                image_url |-> PublicUrl(filePath), capLen |-> capLen,
                created_at |-> CreatedAt(nextId)]
        keep == UNCHANGED <<posts, files, nextId>>
    IN  /\ CanServe
        /\ UNCHANGED <<comments, likes, likeOps, follows, inflight>>
        /\ IF clerk = NoClerk
           THEN Reply(req, 401, "Unauthorized", <<>>) /\ keep
           ELSE IF uid = NoId
           THEN Reply(req, 404, "User not found in database", <<lookup>>) /\ keep
           ELSE IF ~parses
           THEN Reply(req, 500, "Internal server error", <<lookup>>) /\ keep
           ELSE IF ~imageFile.present
           THEN Reply(req, 400, "Image file is required", <<lookup>>) /\ keep
           ELSE IF imageFile.size > MAX_FILE_SIZE
           THEN Reply(req, 400, "File size exceeds 5MB limit", <<lookup>>) /\ keep
           ELSE IF ~IsImageType(imageFile.type)
           THEN Reply(req, 400, "Only image files are allowed", <<lookup>>) /\ keep
           ELSE IF CaptionTooLong(capLen)
           THEN Reply(req, 400, "Caption exceeds 2200 characters", <<lookup>>) /\ keep
           ELSE IF fault = "storage.upload"
           THEN /\ Reply(req, 500, "Failed to upload image",
                         <<lookup, Call("storage.upload", "error")>>)
                /\ keep
           ELSE IF fault \in {"posts.insert", "posts.insert+storage.remove"}
           THEN LET rollback == RollbackUpload(files \cup {filePath}, filePath,
                                    IF fault = "posts.insert" THEN "ok" ELSE "error")
                IN  /\ Reply(req, 500, "Failed to create post",
                             <<lookup, Call("storage.upload", "ok")>> \o rollback.calls)
                    /\ files' = rollback.files
                    /\ nextId' = nextId + 1
                    /\ UNCHANGED posts
           ELSE /\ Reply(req, 200, "",
                         <<lookup, Call("storage.upload", "ok"), Call("posts.insert", "ok")>>)
                /\ files' = files \cup {filePath}
                /\ posts' = posts \cup {row}
                /\ nextId' = nextId + 1

MayDeletePost_Anyone(ownerId, actingId) == TRUE

\* post.user_id !== supabaseUserId is refused.
MayDeletePost(ownerId, actingId) == ownerId = actingId

DeletePostFaults == {NoFault, "users.select", "posts.select", "storage.remove",
                     "posts.delete"}

DeleteStages_StopOnStorageError(filePath, fault) ==
    IF filePath = <<>>
    THEN <<Call("posts.delete", IF fault = "posts.delete" THEN "error" ELSE "ok")>>
    ELSE IF fault = "storage.remove"
    THEN <<Call("storage.remove", "error")>>
    ELSE <<Call("storage.remove", "ok"),
           Call("posts.delete", IF fault = "posts.delete" THEN "error" ELSE "ok")>>

\* The calls of DELETE /posts/{id} after its owner check: the remove of the file
\* when a path was extracted, its error only logged, then the delete of the row.
DeleteStages(filePath, fault) ==
    (IF filePath = <<>> THEN <<>>
     ELSE <<Call("storage.remove", IF fault = "storage.remove" THEN "error" ELSE "ok")>>)
        \o <<Call("posts.delete", IF fault = "posts.delete" THEN "error" ELSE "ok")>>

\* DELETE /posts/{id}; the route segment postId is never empty.
DeletePost(clerk, postId, fault) ==
    LET req == Request("DELETE /posts", clerk, TRUE, postId)
        uid == GetSupabaseUserId(clerk, fault)
        lookup == LookupCall(clerk, fault)
        post == PostRow(postId)
        filePath == ExtractFilePathFromUrl(post.image_url)
        stages == DeleteStages(filePath, fault)
        removed ==
            IF filePath = <<>> \/ fault = "storage.remove" THEN files
            ELSE files \ {filePath}
        keep == UNCHANGED <<posts, files, comments, likes>>
    IN  /\ CanServe
        /\ UNCHANGED <<likeOps, follows, nextId, inflight>>
        /\ IF postId = NoId
           THEN Reply(req, 400, "postId is required", <<>>) /\ keep
           ELSE IF clerk = NoClerk
           THEN Reply(req, 401, "Unauthorized", <<>>) /\ keep
           ELSE IF uid = NoId
           THEN Reply(req, 404, "User not found in database", <<lookup>>) /\ keep
           ELSE IF fault = "posts.select" \/ ~PostExists(postId)
           THEN /\ Reply(req, 404, "Post not found",
                         <<lookup, Call("posts.select", "error")>>)
                /\ keep
           ELSE IF ~MayDeletePost(post.user_id, uid)
           THEN /\ Reply(req, 403, "Forbidden: You can only delete your own posts",
                         <<lookup, Call("posts.select", "ok")>>)
                /\ keep
           ELSE IF stages[Len(stages)] /= Call("posts.delete", "ok")
           THEN /\ Reply(req, 500, "Failed to delete post: " \o StoreMessage("error"),
                         <<lookup, Call("posts.select", "ok")>> \o stages)
                /\ files' = removed
                /\ UNCHANGED <<posts, comments, likes>>
           ELSE /\ Reply(req, 200, "", <<lookup, Call("posts.select", "ok")>> \o stages)
                /\ files' = removed
                /\ posts' = posts \ {post}
                \* ON DELETE CASCADE of the rows that reference the post
                /\ comments' = {c \in comments : c.post_id /= postId}
                /\ likes' = [x \in {y \in DOMAIN likes : y[1] /= postId} |-> likes[x]]

(* ------------------------------- reads -------------------------------- *)

LikesOf(postId) == [x \in {y \in DOMAIN likes : y[1] = postId} |-> likes[x]]
CommentsOf(postId) == {c \in comments : c.post_id = postId}

\* The view post_stats: a row for every post, with the counts of its likes and
\* comments.
PostStats ==
    {[post_id |-> p.id, user_id |-> p.user_id, created_at |-> p.created_at,
      likes_count |-> BagCardinality(LikesOf(p.id)),
      comments_count |-> Cardinality(CommentsOf(p.id))] : p \in posts}

\* .order("created_at", {ascending: false})
RECURSIVE NewestFirst(_)
NewestFirst(rows) ==
    IF rows = {} THEN <<>>
    ELSE LET r == CHOOSE x \in rows : \A y \in rows : y.created_at <= x.created_at
         IN  <<r>> \o NewestFirst(rows \ {r})

Min(a, b) == IF a <= b THEN a ELSE b

Range_FromOne(seq, from, to) == SubSeq(seq, IF from = 0 THEN 1 ELSE from, Min(to + 1, Len(seq)))

\* .range(from, to): the rows at the zero-based positions from..to that exist.
Range(seq, from, to) == SubSeq(seq, from + 1, Min(to + 1, Len(seq)))

\* .limit(n)
Limit(seq, n) == SubSeq(seq, 1, Min(n, Len(seq)))

\* id, content, created_at, user_id of a comment, as the reads return it.
CommentView(c) ==
    [id |-> c.id, content |-> c.content, created_at |-> c.created_at, user_id |-> c.user_id]

Views(rows) == [i \in 1..Len(rows) |-> CommentView(rows[i])]

RecentComments_All(postId) == Views(NewestFirst(CommentsOf(postId)))

\* The comments of a feed entry: eq post_id, newest first, limit(2).
RecentComments(postId) == Views(Limit(NewestFirst(CommentsOf(postId)), 2))

\* The comments of the detail read: eq post_id, newest first, no limit.
AllComments(postId) == Views(NewestFirst(CommentsOf(postId)))

\* isLiked = !!likeData, of the .single() select of the (post, user) row, made
\* only for a resolved caller.
IsLiked(postId, userId, fault) ==
    /\ userId /= NoId
    /\ fault /= "likes.select"
    /\ Rows(likes, <<postId, userId>>) = 1

FeedLimits == {2, 10}
FeedFaults == {NoFault, "post_stats.select", "comments.select"}
DetailFaults == {NoFault, "users.select", "post_stats.select", "comments.select",
                 "likes.select"}

\* GET /posts?limit&offset&userId
GetPosts(limit, offset, userId, fault) ==
    LET req == [Request("GET /posts", NoClerk, TRUE, userId)
                    EXCEPT !.limit = limit, !.offset = offset]
        rows == {st \in PostStats : userId = NoId \/ st.user_id = userId}
        page == Range(NewestFirst(rows), offset, offset + limit - 1)
        commentCalls ==
            IF page = <<>> THEN <<>>
            ELSE <<Call("comments.select",
                        IF fault = "comments.select" THEN "error" ELSE "ok")>>
        data == [i \in 1..Len(page) |->
                    [id |-> page[i].post_id, user_id |-> page[i].user_id,
                     created_at |-> page[i].created_at,
                     likes_count |-> page[i].likes_count,
                     comments_count |-> page[i].comments_count,
                     recent_comments |->
                         IF fault = "comments.select" THEN <<>>
                         ELSE RecentComments(page[i].post_id)]]
    IN  /\ UNCHANGED <<posts, files, comments, likes, likeOps, follows, nextId, inflight,
                       served>>
        /\ IF fault = "post_stats.select"
           THEN resp' = Response(req, 500, "Failed to fetch posts",
                                 <<Call("post_stats.select", "error")>>)
           ELSE resp' = [Response(req, 200, "",
                                  <<Call("post_stats.select", "ok")>> \o commentCalls)
                             EXCEPT !.data = data]

\* GET /posts/{id}; auth() is optional and the route segment is never empty.
GetPost(clerk, postId, fault) ==
    LET req == Request("GET /posts/{id}", clerk, TRUE, postId)
        currentSupabaseUserId ==
            IF clerk = NoClerk THEN NoId ELSE GetSupabaseUserId(clerk, fault)
        lookup == IF clerk = NoClerk THEN <<>> ELSE <<LookupCall(clerk, fault)>>
        postStats == CHOOSE st \in PostStats : st.post_id = postId
        likeCalls ==
            IF currentSupabaseUserId = NoId THEN <<>>
            ELSE <<Call("likes.select",
                        IF fault = "likes.select" THEN "error"
                        ELSE IF Rows(likes, <<postId, currentSupabaseUserId>>) = 1 THEN "ok"
                        ELSE "no row")>>
        data == <<[id |-> postStats.post_id, user_id |-> postStats.user_id,
                   created_at |-> postStats.created_at,
                   likes_count |-> postStats.likes_count,
                   comments_count |-> postStats.comments_count,
                   is_liked |-> IsLiked(postId, currentSupabaseUserId, fault),
                   recent_comments |->
                       IF fault = "comments.select" THEN <<>> ELSE AllComments(postId)]>>
    IN  /\ UNCHANGED <<posts, files, comments, likes, likeOps, follows, nextId, inflight,
                       served>>
        /\ IF postId = NoId
           THEN resp' = Response(req, 400, "postId is required", <<>>)
           ELSE IF fault = "post_stats.select" \/ ~PostExists(postId)
           THEN resp' = Response(req, 404, "Post not found",
                                 lookup \o <<Call("post_stats.select", "error")>>)
           ELSE resp' = [Response(req, 200, "",
                                  lookup \o <<Call("post_stats.select", "ok"),
                                              Call("comments.select",
                                                   IF fault = "comments.select"
                                                   THEN "error" ELSE "ok")>>
                                      \o likeCalls)
                             EXCEPT !.data = data]

(* ------------------------------ client -------------------------------- *)

\* How a fetch ends: a response with ok, a response without, or a rejection.
FetchOutcomes == {"ok", "not ok", "network error"}

\* A LikeButton as mounted: useState(initialLiked), useState(initialLikesCount),
\* useRef(false); pending holds the invocations of toggleLike awaiting their
\* fetch, each with the values its closure captured.
LikeButton(initialLiked, initialLikesCount) ==
    [isLiked |-> initialLiked, likesCount |-> initialLikesCount,
     isProcessing |-> FALSE, pending |-> <<>>, clicks |-> 0, alerts |-> 0]

\* A FollowButton as mounted: useState(initialFollowing), useState(false).
FollowButton(initialFollowing) ==
    [isFollowing |-> initialFollowing, isLoading |-> FALSE, pending |-> <<>>, clicks |-> 0,
     alerts |-> 0]

\* A PostFeed as mounted: useState(initialPosts || []), useState(false),
\* useState(null), useState(true), useState(initialPosts?.length || 0).  view
\* holds the values of the last render, which the observer's callback, the retry
\* button and fetchPosts have in their closures; pending holds the
\* invocations of fetchPosts awaiting their fetch, last tells how the fetch
\* that ended last did end, and mounted that the effects of the mount have run.
PostFeed(initialPosts) ==
    [posts |-> initialPosts, loading |-> FALSE, error |-> FALSE, hasMore |-> TRUE,
     offset |-> Len(initialPosts),
     view |-> [loading |-> FALSE, error |-> FALSE, hasMore |-> TRUE,
               offset |-> Len(initialPosts)],
     mounted |-> FALSE, pending |-> <<>>, requests |-> 0, last |-> "none"]

\* No call of handleApiResponse has been made.
NoApiCall ==
    [response |-> [status |-> 0, contentType |-> "none",
                   body |-> [kind |-> "null", success |-> "absent", data |-> "absent",
                             error |-> "absent"]],
     done |-> FALSE,
     result |-> [success |-> FALSE, error |-> "", data |-> "none"]]

IsProcessing_Never(button) == FALSE

\* if (isProcessingRef.current) return;
IsProcessing(button) == button.isProcessing

\* toggleLike up to its await: a click, a double tap or triggerDoubleTap.  The
\* state set here is rendered before the next event is handled.
ToggleLike ==
    LET newLiked == ~likeButton.isLiked
        newCount == IF newLiked THEN likeButton.likesCount + 1
                    ELSE likeButton.likesCount - 1
        call == [method |-> IF newLiked THEN "POST" ELSE "DELETE", newLiked |-> newLiked,
                 likesCount |-> likeButton.likesCount, phase |-> "fetching"]
    IN  /\ likeButton.clicks < MaxClicks
        /\ UNCHANGED <<serverVars, followButton, postFeed, api>>
        /\ IF IsProcessing(likeButton)
           THEN likeButton' = [likeButton EXCEPT !.clicks = @ + 1]
           ELSE likeButton' = [likeButton EXCEPT !.clicks = @ + 1,
                                                 !.isProcessing = TRUE,
                                                 !.isLiked = newLiked,
                                                 !.likesCount = newCount,
                                                 !.pending = Append(@, call)]

Remove(seq, i) == SubSeq(seq, 1, i - 1) \o SubSeq(seq, i + 1, Len(seq))

\* toggleLike from the answer of its fetch: on a response that is not ok the
\* state is set back and the body is awaited; a rejection is caught and the
\* state set back; finally releases the ref.
AfterLikeFetch(button, i, outcome) ==
    LET call == button.pending[i]
    IN  CASE outcome = "ok" ->
                  [button EXCEPT !.isProcessing = FALSE,
                                 !.pending = Remove(@, i)]
          [] outcome = "not ok" ->
                  [button EXCEPT !.isLiked = ~call.newLiked,
                                 !.likesCount = call.likesCount,
                                 !.pending[i].phase = "rolled back"]
          [] OTHER ->
                  [button EXCEPT !.isLiked = ~call.newLiked,
                                 !.likesCount = call.likesCount,
                                 !.isProcessing = FALSE,
                                 !.pending = Remove(@, i)]

LikeFetchDone(i, outcome) ==
    /\ i \in 1..Len(likeButton.pending)
    /\ likeButton.pending[i].phase = "fetching"
    /\ UNCHANGED <<serverVars, followButton, postFeed, api>>
    /\ likeButton' = AfterLikeFetch(likeButton, i, outcome)

\* toggleLike after response.json() of a response that was not ok: return, and
\* finally releases the ref.
LikeFinally(i) ==
    /\ i \in 1..Len(likeButton.pending)
    /\ likeButton.pending[i].phase = "rolled back"
    /\ UNCHANGED <<serverVars, followButton, postFeed, api>>
    /\ likeButton' = [likeButton EXCEPT !.isProcessing = FALSE, !.pending = Remove(@, i)]

\* handleFollow up to its await; the button is rendered, so isDisabled is false.
HandleFollow ==
    LET call == [method |-> IF followButton.isFollowing THEN "DELETE" ELSE "POST",
                 isFollowing |-> followButton.isFollowing]
    IN  /\ followButton.clicks < MaxClicks
        /\ UNCHANGED <<serverVars, likeButton, postFeed, api>>
        /\ IF followButton.isLoading
           THEN followButton' = [followButton EXCEPT !.clicks = @ + 1]
           ELSE followButton' = [followButton EXCEPT !.clicks = @ + 1,
                                                     !.isLoading = TRUE,
                                                     !.pending = Append(@, call)]

\* handleFollow from the answer of its fetch: the state is set on success, an
\* answer without success is thrown, caught and shown with alert(); finally
\* setIsLoading(false).  toggleLike shows nothing: its failures go to
\* console.error.
FollowFetchDone(i, outcome) ==
    LET call == followButton.pending[i]
    IN  /\ i \in 1..Len(followButton.pending)
        /\ UNCHANGED <<serverVars, likeButton, postFeed, api>>
        /\ IF outcome = "ok"
           THEN followButton' = [followButton EXCEPT !.isFollowing = (call.method = "POST"),
                                                     !.isLoading = FALSE,
                                                     !.pending = Remove(@, i)]
           ELSE followButton' = [followButton EXCEPT !.isLoading = FALSE,
                                                     !.alerts = @ + 1,
                                                     !.pending = Remove(@, i)]

(* ------------------------------ PostFeed ------------------------------ *)

POSTS_PER_PAGE == 10

\* What a render of the feed's state shows and closes over.
ViewOf(feed) ==
    [loading |-> feed.loading, error |-> feed.error, hasMore |-> feed.hasMore,
     offset |-> feed.offset]

\* fetchPosts up to its await, as the render that created it closed over
\* loading: if (loading) return; setLoading(true); setError(null); fetch.
FetchPosts(feed, currentOffset, by) ==
    IF feed.view.loading THEN feed
    ELSE [feed EXCEPT !.loading = TRUE, !.error = FALSE,
                      !.pending = Append(@, [offset |-> currentOffset, by |-> by]),
                      !.requests = @ + 1]

\* The effects of the mount: the observer is set up and, there being no
\* initialPosts, fetchPosts(0) is called.
FeedInitialLoad ==
    /\ ~postFeed.mounted
    /\ postFeed' = [(IF Len(postFeed.posts) = 0
                     THEN FetchPosts(postFeed, 0, "initial") ELSE postFeed)
                        EXCEPT !.mounted = TRUE]
    /\ UNCHANGED <<serverVars, likeButton, followButton, api>>

\* React renders the state set since the last render; the effect sets the
\* observer up again with the new values.
FeedRender ==
    /\ postFeed.mounted
    /\ postFeed.view /= ViewOf(postFeed)
    /\ postFeed' = [postFeed EXCEPT !.view = ViewOf(postFeed)]
    /\ UNCHANGED <<serverVars, likeButton, followButton, api>>

\* The observer's callback for a target that intersects: the target is
\* rendered when hasMore && !loading, and the callback tests the same values
\* of its render before it calls fetchPosts(offset).
FeedObserve ==
    /\ postFeed.mounted
    /\ postFeed.requests < MaxFeedRequests
    /\ postFeed.view.hasMore /\ ~postFeed.view.loading
    /\ postFeed' = FetchPosts(postFeed, postFeed.view.offset, "observer")
    /\ UNCHANGED <<serverVars, likeButton, followButton, api>>

\* A click on the retry button, which is rendered with the error; the state
\* set in a click is rendered before the next event is handled.
FeedRetry ==
    LET after == FetchPosts(postFeed, postFeed.view.offset, "retry")
    IN  /\ postFeed.mounted
        /\ postFeed.requests < MaxFeedRequests
        /\ postFeed.view.error
        /\ postFeed' = [after EXCEPT !.view = ViewOf(after)]
        /\ UNCHANGED <<serverVars, likeButton, followButton, api>>

HasMoreAfter_OnlyEmpty(hasMore, length) == IF length = 0 THEN FALSE ELSE hasMore

\* setHasMore(false) for a page that is empty or shorter than POSTS_PER_PAGE.
HasMoreAfter(hasMore, length) == IF length < POSTS_PER_PAGE THEN FALSE ELSE hasMore

\* fetchPosts from the answer of its fetch: a page is appended and the offset
\* set from the offset the call was given; an answer that is not ok or not a
\* success, or a rejection, is thrown and caught with setError; finally
\* setLoading(false).
AfterFetchPosts(feed, i, ok, data) ==
    LET call == feed.pending[i]
        ended == [feed EXCEPT !.loading = FALSE, !.pending = Remove(@, i)]
    IN  IF ~ok
        THEN [ended EXCEPT !.error = TRUE, !.last = "failed"]
        ELSE IF Len(data) = 0
        THEN [ended EXCEPT !.hasMore = HasMoreAfter(@, 0), !.last = "ok"]
        ELSE [ended EXCEPT !.posts = @ \o [j \in 1..Len(data) |-> data[j].id],
                           !.offset = call.offset + Len(data),
                           !.hasMore = HasMoreAfter(@, Len(data)),
                           !.last = "ok"]

(* ------------------------- handleApiResponse -------------------------- *)

\* response.ok
Ok(status) == status \in 200..299

\* contentType && contentType.includes("application/json")
IsJson(contentType) ==
    contentType \in {"application/json", "application/json; charset=utf-8"}

\* statusMessages[response.status] || the message with the status in it.  The
\* messages of the source are Korean; they are given here in English.
StatusMessage(status) ==
    CASE status = 400 -> "bad request"
      [] status = 401 -> "login required"
      [] status = 403 -> "no permission"
      [] status = 404 -> "not found"
      [] status = 500 -> "temporary server problem"
      [] status = 503 -> "service temporarily unavailable"
      [] OTHER -> "server error occurred (" \o ToString(status) \o ")"

\* The value of a body's error field; an absent field is undefined, which is
\* falsy like the empty string.
ErrorText(body) == IF body.error = "message" THEN "Failed to add like" ELSE ""

ApiFailure(error) == [success |-> FALSE, error |-> error, data |-> "none"]

\* The second half of handleApiResponse: the parse of a response taken to be
\* a success.  A body that is not JSON makes response.json() throw a
\* SyntaxError, whose message getErrorMessage returns.
ParseSuccess(response) ==
    LET body == response.body
    IN  IF ~IsJson(response.contentType)
        THEN ApiFailure("response format is not valid")
        ELSE IF body.kind = "unparsable"
        THEN ApiFailure("Unexpected token < in JSON at position 0")
        ELSE IF /\ body.kind = "object"
                /\ body.success /= "absent"
                /\ body.data /= "absent"
                /\ body.success = "true"
        THEN [success |-> TRUE, error |-> "", data |-> body.data]
        ELSE IF /\ body.kind = "object"
                /\ body.success /= "absent"
                /\ body.data /= "absent"
                /\ body.success = "false"
                /\ ErrorText(body) /= ""
        THEN ApiFailure(ErrorText(body))
        ELSE [success |-> TRUE, error |-> "", data |-> "body"]

\* handleApiResponse.  For a response that is not ok and is JSON, a body that
\* does not parse, or parses to null, throws inside the try and gets the
\* message of its status; a response that is not ok and not JSON leaves the
\* first half without returning.
HandleApiResponse(response) ==
    LET body == response.body
    IN  IF ~Ok(response.status) /\ IsJson(response.contentType)
        THEN IF body.kind /= "object"
             THEN ApiFailure(StatusMessage(response.status))
             ELSE ApiFailure(IF ErrorText(body) /= "" THEN ErrorText(body)
                             ELSE "server error (" \o ToString(response.status) \o ")")
        ELSE ParseSuccess(response)

ApiStatuses == {200, 201, 400, 401, 403, 404, 418, 500, 503}
ContentTypes == {"application/json", "application/json; charset=utf-8", "text/html", "none"}

\* Bodies: text that is not JSON, JSON null, and JSON objects over the fields
\* success, data and error.
JsonBody(kind, success, data, error) ==
    [kind |-> kind, success |-> success, data |-> data, error |-> error]

ApiBodies ==
    {JsonBody(k, "absent", "absent", "absent") : k \in {"unparsable", "null"}}
        \cup {JsonBody("object", sc, d, er) :
                 sc \in {"absent", "true", "false"},
                 d \in {"absent", "null", "value"},
                 er \in {"absent", "empty", "message"}}

ApiResponses ==
    {[status |-> st, contentType |-> ct, body |-> b] :
        st \in ApiStatuses, ct \in ContentTypes, b \in ApiBodies}

\* await handleApiResponse(response)
CallHandleApiResponse ==
    /\ ~api.done
    /\ api' = [api EXCEPT !.done = TRUE, !.result = HandleApiResponse(api.response)]
    /\ UNCHANGED <<serverVars, likeButton, followButton, postFeed>>

(* --------------------------- specification ---------------------------- *)

SeedPath == FilePath("clerk_a", 0)

Init ==
    /\ posts = {[id |-> "p0", user_id |-> "u1", image_url |-> PublicUrl(SeedPath),
                 capLen |-> 0, created_at |-> CreatedAt(0)]}
    /\ files = {SeedPath}
    /\ comments = {[id |-> "c0", post_id |-> "p0", user_id |-> "u2",
                    content |-> <<"a">>, created_at |-> 0]}
    /\ likes = EmptyBag
    /\ likeOps = <<>>
    /\ follows = EmptyBag
    /\ nextId = 1
    /\ served = 0
    /\ resp = Response(Request("none", NoClerk, TRUE, NoId), 0, "", <<>>)
    /\ inflight = [p \in Procs |-> [pc |-> "idle"]]
    /\ likeButton = LikeButton(FALSE, 0)
    /\ followButton = FollowButton(FALSE)
    /\ postFeed = PostFeed(<<>>)
    /\ api = NoApiCall

Body(parses, id) == [parses |-> parses, id |-> id]

\* The bodies a handler may be sent: one that does not parse, and every parsed
\* body over the ids.
Bodies(ids) == {Body(FALSE, NoId)} \cup {Body(TRUE, id) : id \in ids}

PostIdInputs == {NoId, "p9"} \cup {p.id : p \in posts}
CommentIdInputs == {NoId, "c9"} \cup {c.id : c \in comments}
UserIdInputs == {NoId, "u9"} \cup UserIds

CommentBodies ==
    {[parses |-> FALSE, id |-> NoId, content |-> <<>>]}
        \cup {[parses |-> TRUE, id |-> id, content |-> ct] :
                 id \in PostIdInputs, ct \in Contents}

Forms ==
    {[parses |-> FALSE, image |-> NoImage, capLen |-> 0]}
        \cup {[parses |-> TRUE, image |-> im, capLen |-> n] :
                 im \in Images, n \in CaptionLengths}

NextLikes ==
    \/ \E c \in Callers, b \in Bodies(PostIdInputs), f \in LikeUpsertFaults :
          PostLikes(c, b, f) /\ UNCHANGED clientVars
    \/ \E c \in Callers, b \in Bodies(PostIdInputs), f \in LikeFaults :
          DeleteLikes(c, b, f) /\ UNCHANGED clientVars

\* The handlers of /comments, POST taking its bodies from bodies.
NextCommentsOver(bodies) ==
    \/ \E c \in Callers, b \in bodies, f \in CommentFaults :
          PostComments(c, b, f) /\ UNCHANGED clientVars
    \/ \E c \in Callers, b \in Bodies(CommentIdInputs), f \in CommentDeleteFaults :
          DeleteComments(c, b, f) /\ UNCHANGED clientVars

NextComments == NextCommentsOver(CommentBodies)

\* POST /follows up to its check, and DELETE /follows.
NextFollowsStart ==
    \/ \E p \in Procs, c \in Callers, b \in Bodies(UserIdInputs), f \in FollowFaults :
          PostFollowsCheck(p, c, b, f) /\ UNCHANGED clientVars
    \/ \E c \in Callers, b \in Bodies(UserIdInputs), f \in FollowFaults :
          DeleteFollows(c, b, f) /\ UNCHANGED clientVars

\* A POST /follows in flight goes on to its insert.
NextFollowsFinish ==
    \E p \in Procs, f \in {NoFault, "follows"} :
        PostFollowsInsert(p, f) /\ UNCHANGED clientVars

NextFollows == NextFollowsStart \/ NextFollowsFinish

\* The handlers of /posts, POST taking its forms from forms.
NextPostsOver(forms) ==
    \/ \E c \in Callers, fm \in forms, f \in PostFaults :
          PostPosts(c, fm, f) /\ UNCHANGED clientVars
    \/ \E c \in Callers, id \in PostIdInputs \ {NoId}, f \in DeletePostFaults :
          DeletePost(c, id, f) /\ UNCHANGED clientVars

NextPosts == NextPostsOver(Forms)

\* A post that an earlier POST /posts of its author left: post i of a store in
\* which u1 wrote every k-th post and u2 the others.
FeedPost(i, k) ==
    LET author == IF i % k = 0 THEN "clerk_a" ELSE "clerk_b"
    IN  [id |-> "p" \o ToString(i), user_id |-> UsersTable[author],
         image_url |-> PublicUrl(FilePath(author, i)), capLen |-> 0,
         created_at |-> CreatedAt(i)]

\* A comment that an earlier POST /comments left on post p1.
FeedComment(n, j) ==
    [id |-> "c" \o ToString(n + j), post_id |-> "p1",
     user_id |-> IF j % 2 = 0 THEN "u1" ELSE "u2", content |-> <<"a">>,
     created_at |-> n + j]

\* The store when the reads start: no post, fewer posts than a page of 10 or
\* MaxFeedPosts posts, with up to MaxFeedComments comments on the oldest post,
\* which u1 likes or not.
InitFeed ==
    \E n \in {0, 3, MaxFeedPosts}, k \in 1..2, m \in 0..MaxFeedComments, liked \in BOOLEAN :
        /\ posts = {FeedPost(i, k) : i \in 1..n}
        /\ files = {FilePath(IF i % k = 0 THEN "clerk_a" ELSE "clerk_b", i) : i \in 1..n}
        /\ comments = IF n = 0 THEN {} ELSE {FeedComment(n, j) : j \in 1..m}
        /\ likes = IF n > 0 /\ liked THEN SetToBag({<<"p1", "u1">>}) ELSE EmptyBag
        /\ likeOps = IF n > 0 /\ liked THEN <<LikeOp("POST /likes", "p1", "u1")>> ELSE <<>>
        /\ follows = EmptyBag
        /\ nextId = n + m + 1
        /\ served = 0
        /\ resp = Response(Request("none", NoClerk, TRUE, NoId), 0, "", <<>>)
        /\ inflight = [p \in Procs |-> [pc |-> "idle"]]
        /\ likeButton = LikeButton(FALSE, 0)
        /\ followButton = FollowButton(FALSE)
        /\ postFeed = PostFeed(<<>>)
        /\ api = NoApiCall

\* The reads.
NextFeed ==
    \/ \E l \in FeedLimits, u \in {NoId} \cup UserIds, f \in FeedFaults :
          \E o \in {0, l} : GetPosts(l, o, u, f) /\ UNCHANGED clientVars
    \/ \E c \in Callers, id \in {"p1", "p9"}, f \in DetailFaults :
          GetPost(c, id, f) /\ UNCHANGED clientVars

SpecFeed == InitFeed /\ [][NextFeed]_vars

\* The buttons as mounted over the store of Init: the post liked or not by the
\* viewer, with a count that includes the viewer's like, the profile followed
\* or not.
InitClient ==
    \E liked \in BOOLEAN, others \in 0..1, following \in BOOLEAN :
        /\ posts = {[id |-> "p0", user_id |-> "u1", image_url |-> PublicUrl(SeedPath),
                     capLen |-> 0, created_at |-> CreatedAt(0)]}
        /\ files = {SeedPath}
        /\ comments = {}
        /\ likes = EmptyBag
        /\ likeOps = <<>>
        /\ follows = EmptyBag
        /\ nextId = 1
        /\ served = 0
        /\ resp = Response(Request("none", NoClerk, TRUE, NoId), 0, "", <<>>)
        /\ inflight = [p \in Procs |-> [pc |-> "idle"]]
        /\ likeButton = LikeButton(liked, others + (IF liked THEN 1 ELSE 0))
        /\ followButton = FollowButton(following)
        /\ postFeed = PostFeed(<<>>)
        /\ api = NoApiCall

\* The events of the two buttons.
NextClient ==
    \/ ToggleLike
    \/ \E i \in 1..MaxClicks, o \in FetchOutcomes : LikeFetchDone(i, o)
    \/ \E i \in 1..MaxClicks : LikeFinally(i)
    \/ HandleFollow
    \/ \E i \in 1..MaxClicks, o \in FetchOutcomes : FollowFetchDone(i, o)

SpecClient == InitClient /\ [][NextClient]_vars

\* A response handed to handleApiResponse, over every status, content type and
\* body.
InitApi ==
    \E response \in ApiResponses :
        /\ posts = {[id |-> "p0", user_id |-> "u1", image_url |-> PublicUrl(SeedPath),
                     capLen |-> 0, created_at |-> CreatedAt(0)]}
        /\ files = {SeedPath}
        /\ comments = {}
        /\ likes = EmptyBag
        /\ likeOps = <<>>
        /\ follows = EmptyBag
        /\ nextId = 1
        /\ served = 0
        /\ resp = Response(Request("none", NoClerk, TRUE, NoId), 0, "", <<>>)
        /\ inflight = [p \in Procs |-> [pc |-> "idle"]]
        /\ likeButton = LikeButton(FALSE, 0)
        /\ followButton = FollowButton(FALSE)
        /\ postFeed = PostFeed(<<>>)
        /\ api = [NoApiCall EXCEPT !.response = response]

NextApi == CallHandleApiResponse

SpecApi == InitApi /\ [][NextApi]_vars

\* The fetch of fetchPosts answered by GET /posts, and fetchPosts from that
\* answer on.  The answer arrives after the state set before the await has been
\* rendered.
FeedFetchDone(i, fault) ==
    /\ i \in 1..Len(postFeed.pending)
    /\ postFeed.view = ViewOf(postFeed)
    /\ GetPosts(POSTS_PER_PAGE, postFeed.pending[i].offset, NoId, fault)
    /\ postFeed' = AfterFetchPosts(postFeed, i, resp'.status = 200, resp'.data)
    /\ UNCHANGED <<likeButton, followButton, api>>

\* The fetch of fetchPosts rejects.
FeedFetchRejected(i) ==
    /\ i \in 1..Len(postFeed.pending)
    /\ postFeed.view = ViewOf(postFeed)
    /\ postFeed' = AfterFetchPosts(postFeed, i, FALSE, <<>>)
    /\ UNCHANGED <<serverVars, likeButton, followButton, api>>

\* The home page's feed, mounted without initialPosts over a store with no
\* post, fewer posts than a page, one page exactly, or MaxFeedPosts posts.
InitPostFeed ==
    \E n \in {0, 3, POSTS_PER_PAGE, MaxFeedPosts} :
        /\ posts = {FeedPost(i, 2) : i \in 1..n}
        /\ files = {FilePath(IF i % 2 = 0 THEN "clerk_a" ELSE "clerk_b", i) : i \in 1..n}
        /\ comments = {}
        /\ likes = EmptyBag
        /\ likeOps = <<>>
        /\ follows = EmptyBag
        /\ nextId = n + 1
        /\ served = 0
        /\ resp = Response(Request("none", NoClerk, TRUE, NoId), 0, "", <<>>)
        /\ inflight = [p \in Procs |-> [pc |-> "idle"]]
        /\ likeButton = LikeButton(FALSE, 0)
        /\ followButton = FollowButton(FALSE)
        /\ postFeed = PostFeed(<<>>)
        /\ api = NoApiCall

\* The events of the feed.
NextPostFeed ==
    \/ FeedInitialLoad
    \/ FeedRender
    \/ FeedObserve
    \/ FeedRetry
    \/ \E i \in 1..MaxFeedRequests, f \in {NoFault, "post_stats.select"} : FeedFetchDone(i, f)
    \/ \E i \in 1..MaxFeedRequests : FeedFetchRejected(i)

SpecPostFeed == InitPostFeed /\ [][NextPostFeed]_vars

\* The signed-in viewer of the feed.
Viewer == "clerk_b"

\* The LikeButton of a PostCard as mounted: the card's useState(false) is its
\* initialLiked and useState(post.likes_count) its initialLikesCount.
PostCard(post) == LikeButton(FALSE, post.likes_count)

\* The fetch of toggleLike answered by the handler of its method, and toggleLike
\* from that answer on; onLikeChange gives the card the values the button has.
CardLike(i, fault) ==
    /\ i \in 1..Len(likeButton.pending)
    /\ likeButton.pending[i].phase = "fetching"
    /\ IF likeButton.pending[i].method = "POST"
       THEN PostLikes(Viewer, Body(TRUE, "p0"), fault)
       ELSE DeleteLikes(Viewer, Body(TRUE, "p0"), fault)
    /\ likeButton' = AfterLikeFetch(likeButton, i,
                                    IF resp'.status = 200 THEN "ok" ELSE "not ok")
    /\ UNCHANGED <<followButton, postFeed, api>>

\* A card of the feed for post p0, which the viewer and another user may have
\* liked before GET /posts was answered.
InitCard ==
    \E liked \in BOOLEAN, others \in BOOLEAN :
        LET before == {<<"p0", "u2">> : x \in {y \in {liked} : y}}
                          \cup {<<"p0", "u1">> : x \in {y \in {others} : y}}
        IN  /\ posts = {[id |-> "p0", user_id |-> "u1", image_url |-> PublicUrl(SeedPath),
                         capLen |-> 0, created_at |-> CreatedAt(0)]}
            /\ files = {SeedPath}
            /\ comments = {}
            /\ likes = SetToBag(before)
            /\ likeOps = <<>>
            /\ follows = EmptyBag
            /\ nextId = 1
            /\ served = 0
            /\ resp = Response(Request("none", NoClerk, TRUE, NoId), 0, "", <<>>)
            /\ inflight = [p \in Procs |-> [pc |-> "idle"]]
            /\ likeButton = PostCard([likes_count |-> Cardinality(before)])
            /\ followButton = FollowButton(FALSE)
            /\ postFeed = PostFeed(<<>>)
            /\ api = NoApiCall

\* The events of the card's like button with the store behind it.
NextCard ==
    \/ ToggleLike
    \/ \E i \in 1..MaxClicks, f \in {NoFault, "likes"} : CardLike(i, f)
    \/ \E i \in 1..MaxClicks : LikeFetchDone(i, "network error")
    \/ \E i \in 1..MaxClicks : LikeFinally(i)

SpecCard == InitCard /\ [][NextCard]_vars

\* A behaviour that mixes the routes takes MaxMixedRequests requests.
MixedBudgetLeft == served + Cardinality(InFlight) < MaxMixedRequests

\* What the mixed behaviours send to POST /comments and POST /posts: a body
\* that does not parse, missing, blank and padded contents; no image or a valid
\* one, with no caption or one that is too long.
MixedCommentBodies ==
    {b \in CommentBodies : b.content \in {<<>>, <<" ">>, <<" ", "a", " ">>}}
MixedForms ==
    {fm \in Forms : fm.image.size \in {0, MAX_FILE_SIZE} /\ fm.capLen /= MAX_CAPTION_LENGTH}

\* Every mutation handler of the application.
Next ==
    \/ MixedBudgetLeft /\ NextLikes
    \/ MixedBudgetLeft /\ NextCommentsOver(MixedCommentBodies)
    \/ MixedBudgetLeft /\ NextFollowsStart
    \/ NextFollowsFinish
    \/ MixedBudgetLeft /\ NextPostsOver(MixedForms)

Spec == Init /\ [][Next]_vars
SpecLikes == Init /\ [][NextLikes]_vars
SpecComments == Init /\ [][NextComments]_vars
SpecFollows == Init /\ [][NextFollows]_vars
SpecPosts == Init /\ [][NextPosts]_vars

(* ------------------------------ properties ---------------------------- *)

\* The step answers a request of handler op.
Answers(op) == served' = served + 1 /\ resp'.req.op = op

\* The internal user id of the caller of the request answered last.
ActorOf(r) == IF r.req.clerk \in DOMAIN UsersTable THEN UsersTable[r.req.clerk] ELSE NoId

\* The response's invocation issued call name and the call ended with result.
Called(r, name, result) ==
    \E i \in 1..Len(r.calls) : r.calls[i] = Call(name, result)

Attempted(r, name) == \E i \in 1..Len(r.calls) : r.calls[i].call = name

WroteNothing(r) == \A i \in 1..Len(r.calls) : r.calls[i].call \notin WriteCalls

StoreUnchanged == UNCHANGED <<posts, files, comments, likes, follows>>

\* C1: DELETE /posts/{id} by a caller whose resolved internal id differs from the
\* post's user_id answers 403 and leaves the Post row and the stored files as they
\* were; and a Post row leaves the table only in a DELETE /posts/{id} of that row
\* whose acting internal id is the row's user_id.
C1_OnlyOwnerDeletesPost ==
    [][/\ (/\ Answers("DELETE /posts")
           /\ Called(resp', "users.select", "ok")
           /\ Called(resp', "posts.select", "ok")
           /\ PostRow(resp'.req.id).user_id /= ActorOf(resp'))
          => /\ resp'.status = 403
             /\ posts' = posts
             /\ files' = files
       /\ \A r \in posts \ posts' :
             /\ Answers("DELETE /posts")
             /\ resp'.req.id = r.id
             /\ ActorOf(resp') = r.user_id]_vars

C1_Witness ==
    /\ resp.req.op = "DELETE /posts"
    /\ resp.status = 403
    /\ PostExists(resp.req.id)
    /\ ActorOf(resp) \notin {NoId, PostRow(resp.req.id).user_id}

\* C2: DELETE /comments removes a Comment row only when the caller's resolved
\* internal id is the comment's user_id; a caller who is not the owner gets 403
\* and the comments are unchanged; a commentId with no row gets 404 and no write.
C2_OnlyOwnerDeletesComment ==
    [][Answers("DELETE /comments") =>
          /\ \A c \in comments \ comments' :
                /\ c.id = resp'.req.id
                /\ c.user_id = ActorOf(resp')
                /\ resp'.status = 200
          /\ comments' \subseteq comments
          /\ (/\ Called(resp', "users.select", "ok")
              /\ Called(resp', "comments.select", "ok")
              /\ CommentRow(resp'.req.id).user_id /= ActorOf(resp'))
             => resp'.status = 403 /\ comments' = comments
          /\ (/\ Called(resp', "users.select", "ok")
              /\ resp'.req.id /= NoId
              /\ ~CommentExists(resp'.req.id))
             => /\ resp'.status = 404
                /\ resp'.error = "Comment not found"
                /\ WroteNothing(resp')
                /\ comments' = comments]_vars

C2_Witness ==
    /\ resp.req.op = "DELETE /comments"
    /\ resp.status = 403
    /\ CommentExists(resp.req.id)
    /\ ActorOf(resp) \notin {NoId, CommentRow(resp.req.id).user_id}

MutationHandlers == {"POST /posts", "DELETE /posts", "POST /comments", "DELETE /comments",
                     "POST /likes", "DELETE /likes", "POST /follows", "DELETE /follows"}

Unauthenticated(r) == r.req.clerk = NoClerk
NoUserRow(r) == r.req.clerk /= NoClerk /\ r.req.clerk \notin DOMAIN UsersTable

PassesChecksBeforeLookup(req) ==
    CASE req.op \in {"POST /likes", "DELETE /likes", "DELETE /comments"} ->
            req.parses /\ req.id /= NoId
      [] req.op = "POST /comments" ->
            req.parses /\ req.id /= NoId /\ Trim(req.content) /= <<>>
      [] OTHER -> TRUE

NoCallFailed(r) ==
    \A i \in 1..Len(r.calls) : r.calls[i].result \notin {"error", "error 23505"}

\* The writes the store applied to the likes of one (post, user) pair.
PairOps(pair) == SelectSeq(likeOps, LAMBDA e : e.pair = pair)

LikedPairs == {likeOps[i].pair : i \in 1..Len(likeOps)}

\* The last n writes to the pair were the handlers ops, in that order.
EndsWith(pair, ops) ==
    LET h == PairOps(pair)
        n == Len(ops)
    IN  /\ Len(h) >= n
        /\ \A i \in 1..n : h[Len(h) - n + i].op = ops[i]

\* C4: a POST /likes that follows a successful POST /likes of the same user for
\* the same post succeeds too, and the pair then has exactly one Like row.
C4_LikeTwiceOneRow ==
    [][(/\ resp.req.op = "POST /likes"
        /\ resp.status = 200
        /\ Answers("POST /likes")
        /\ resp'.req.clerk = resp.req.clerk
        /\ resp'.req.parses
        /\ resp'.req.id = resp.req.id
        /\ NoCallFailed(resp'))
       => /\ resp'.status = 200
          /\ Rows(likes', <<resp'.req.id, ActorOf(resp')>>) = 1]_vars

C4_Witness ==
    /\ resp.req.op = "POST /likes"
    /\ resp.status = 200
    /\ EndsWith(<<resp.req.id, ActorOf(resp)>>, <<"POST /likes", "POST /likes">>)
    /\ Rows(likes, <<resp.req.id, ActorOf(resp)>>) = 1

\* C5: DELETE /likes for a (post, user) pair without a Like row succeeds and
\* leaves the rows of likes as they were.
C5_UnlikeWithoutLike ==
    [][(/\ Answers("DELETE /likes")
        /\ resp'.req.parses
        /\ resp'.req.id /= NoId
        /\ Called(resp', "users.select", "ok")
        /\ NoCallFailed(resp')
        /\ Rows(likes, <<resp'.req.id, ActorOf(resp')>>) = 0)
       => /\ resp'.status = 200
          /\ likes' = likes]_vars

C5_Witness ==
    /\ resp.req.op = "DELETE /likes"
    /\ resp.status = 200
    /\ PairOps(<<resp.req.id, ActorOf(resp)>>) =
           <<LikeOp("DELETE /likes", resp.req.id, ActorOf(resp))>>
    /\ likes /= EmptyBag

\* C6: after POST /likes, DELETE /likes, POST /likes of one user for one post,
\* each successful, the post is liked by the user with exactly one Like row.
C6_LikeUnlikeLike ==
    \A pair \in LikedPairs :
        EndsWith(pair, <<"POST /likes", "DELETE /likes", "POST /likes">>)
            => Rows(likes, pair) = 1

C6_Witness ==
    \E pair \in LikedPairs :
        /\ EndsWith(pair, <<"POST /likes", "DELETE /likes", "POST /likes">>)
        /\ Rows(likes, pair) = 1

\* C7 as claimed: a follows pair never has two rows, and a POST /follows for
\* another existing user that meets no infrastructure failure is answered with
\* success or with the explicit duplicate error, whatever ran beside it.
C7_ConcurrentFollows ==
    /\ \A pair \in DOMAIN follows : follows[pair] <= 1
    /\ (/\ resp.req.op = "POST /follows"
        /\ Called(resp, "users.select", "ok")
        /\ resp.req.parses
        /\ resp.req.id \in UserIds \ {ActorOf(resp)}
        /\ NoCallFailed(resp))
       => \/ resp.status = 200
          \/ resp.status = 400 /\ resp.error = "Already following this user"

\* C8: POST /follows with followingId equal to the caller's own internal id is
\* answered 400 "Cannot follow yourself", and no Follow row has follower_id =
\* following_id.
C8_NoSelfFollow ==
    /\ \A pair \in DOMAIN follows : pair[1] /= pair[2]
    /\ (/\ resp.req.op = "POST /follows"
        /\ Called(resp, "users.select", "ok")
        /\ resp.req.parses
        /\ resp.req.id = ActorOf(resp))
       => /\ resp.status = 400
          /\ resp.error = "Cannot follow yourself"
          /\ WroteNothing(resp)

C8_Witness ==
    /\ resp.req.op = "POST /follows"
    /\ resp.req.id = ActorOf(resp)
    /\ resp.req.id \in UserIds
    /\ resp.status = 400
    /\ follows /= EmptyBag

IsBlank(content) ==
    content /= <<>> /\ \A i \in 1..Len(content) : content[i] = " "

\* stored is content without the whitespace around it, and is not empty.
IsTrimmedOf(stored, content) ==
    /\ stored /= <<>>
    /\ stored[1] /= " "
    /\ stored[Len(stored)] /= " "
    /\ \E i \in 1..Len(content) :
          /\ i + Len(stored) - 1 <= Len(content)
          /\ SubSeq(content, i, i + Len(stored) - 1) = stored
          /\ \A k \in 1..Len(content) :
                (k < i \/ k > i + Len(stored) - 1) => content[k] = " "

\* C9: POST /comments of an authenticated caller whose content is only
\* whitespace is answered 400 before any store call and inserts no row; a row
\* that POST /comments inserts holds the request's content trimmed, not empty.
C9_BlankCommentRejected ==
    [][/\ (/\ Answers("POST /comments")
           /\ resp'.req.clerk /= NoClerk
           /\ resp'.req.parses
           /\ IsBlank(resp'.req.content))
          => /\ resp'.status = 400
             /\ resp'.calls = <<>>
             /\ comments' = comments
       /\ \A c \in comments' \ comments :
             /\ Answers("POST /comments")
             /\ IsTrimmedOf(c.content, resp'.req.content)]_vars

C9_Witness ==
    /\ resp.req.op = "POST /comments"
    /\ IsBlank(resp.req.content)
    /\ resp.req.id = "p0"
    /\ resp.req.clerk = "clerk_a"
    /\ resp.status = 400
    /\ \E c \in comments : c.content = <<"a", " ", "a">>

ValidImage(image) ==
    image.present /\ image.size <= 5242880 /\ image.type \in {"image/png", "image/jpeg"}

\* C10: POST /posts of a resolved caller with a valid image and a caption of
\* 2200 characters is not refused (it goes on to the upload and, no call
\* failing, inserts the post); with 2201 characters it is answered 400 and no
\* file is uploaded.
C10_CaptionLimit ==
    [][(/\ Answers("POST /posts")
        /\ Called(resp', "users.select", "ok")
        /\ resp'.req.parses
        /\ ValidImage(resp'.req.image))
       => /\ resp'.req.capLen = 2200 =>
                /\ resp'.status /= 400
                /\ Attempted(resp', "storage.upload")
                /\ NoCallFailed(resp') =>
                      /\ resp'.status = 200
                      /\ \E r \in posts' \ posts : r.capLen = 2200
          /\ resp'.req.capLen = 2201 =>
                /\ resp'.status = 400
                /\ ~Attempted(resp', "storage.upload")
                /\ files' = files
                /\ posts' = posts]_vars

C10_Witness ==
    /\ \E r \in posts : r.capLen = 2200
    /\ resp.req.op = "POST /posts"
    /\ resp.req.capLen = 2201
    /\ ValidImage(resp.req.image)
    /\ resp.status = 400
    /\ resp.error = "Caption exceeds 2200 characters"

\* Call a was issued before call b in the response's invocation.
Precedes(r, a, b) ==
    \E i, j \in 1..Len(r.calls) : i < j /\ r.calls[i].call = a /\ r.calls[j].call = b

\* C11: POST /posts inserts the Post row only after an upload that succeeded; a
\* failed upload leaves posts and files alone; when the insert fails a remove of
\* the uploaded file follows and the answer is 500 "Failed to create post"
\* whatever the remove answers, the file being gone when the remove succeeded.
C11_UploadThenRow ==
    [][Answers("POST /posts") =>
          /\ Attempted(resp', "posts.insert") =>
                \E i, j \in 1..Len(resp'.calls) :
                    /\ i < j
                    /\ resp'.calls[i] = Call("storage.upload", "ok")
                    /\ resp'.calls[j].call = "posts.insert"
          /\ ~Called(resp', "storage.upload", "ok") =>
                posts' = posts /\ files' = files
          /\ posts' /= posts =>
                /\ Called(resp', "posts.insert", "ok")
                /\ \A r \in posts' \ posts : \E f \in files' : PublicUrl(f) = r.image_url
          /\ Called(resp', "posts.insert", "error") =>
                /\ Precedes(resp', "posts.insert", "storage.remove")
                /\ resp'.status = 500
                /\ resp'.error = "Failed to create post"
                /\ posts' = posts
                /\ Called(resp', "storage.remove", "ok") => files' = files]_vars

C11_Witness ==
    /\ resp.req.op = "POST /posts"
    /\ resp.status = 500
    /\ resp.error = "Failed to create post"
    /\ Called(resp, "storage.remove", "error")
    /\ \E f \in files : \A r \in posts : r.image_url /= PublicUrl(f)

\* C12 as claimed: after a successful DELETE /posts/{id} whose file-store remove
\* succeeded, the Post row is gone and so is the file at the path it was uploaded
\* under, that path being what extractFilePathFromUrl derives from image_url.
C12_DeleteRemovesUploadedFile ==
    [][(/\ Answers("DELETE /posts")
        /\ resp'.status = 200
        /\ Called(resp', "storage.remove", "ok"))
       => /\ \A r \in posts' : r.id /= resp'.req.id
          /\ \A r \in posts \ posts' : \A f \in files :
                PublicUrl(f) = r.image_url =>
                    /\ ExtractFilePathFromUrl(r.image_url) = f
                    /\ f \notin files']_vars

\* C13: in DELETE /posts/{id} the remove of the file comes before the delete of
\* the row, and when the remove fails and the delete of the row does not, the row
\* is deleted and the answer is the success one.
C13_FileDeleteDoesNotBlock ==
    [][Answers("DELETE /posts") =>
          /\ Attempted(resp', "posts.delete") =>
                Precedes(resp', "storage.remove", "posts.delete")
          /\ (/\ Called(resp', "storage.remove", "error")
              /\ ~Called(resp', "posts.delete", "error"))
             => /\ resp'.status = 200
                /\ Called(resp', "posts.delete", "ok")
                /\ \E r \in posts \ posts' : r.id = resp'.req.id]_vars

C13_Witness ==
    /\ resp.req.op = "DELETE /posts"
    /\ resp.status = 200
    /\ Called(resp, "storage.remove", "error")
    /\ Precedes(resp, "storage.remove", "posts.delete")
    /\ ~PostExists(resp.req.id)

\* C14 as claimed: a request whose lookup in users failed with a store error is
\* not answered with the not-found outcome, 404 "User not found in database".
C14_LookupFailureDistinct ==
    (/\ resp.req.op \in MutationHandlers
     /\ Called(resp, "users.select", "error"))
    => ~(resp.status = 404 /\ resp.error = "User not found in database")

\* C15: a mutation handler that answers 400, 401, 403, 404 or 409 has left the
\* rows of every table and the stored files as they were, none of its write
\* calls having succeeded.
C15_FailuresWriteNothing ==
    [][(/\ served' = served + 1
        /\ resp'.req.op \in MutationHandlers
        /\ resp'.status \in {400, 401, 403, 404, 409})
       => /\ StoreUnchanged
          /\ \A i \in 1..Len(resp'.calls) :
                resp'.calls[i].call \in WriteCalls => resp'.calls[i].result /= "ok"]_vars

C15_Witness ==
    /\ resp.req.op = "DELETE /comments"
    /\ resp.status = 403
    /\ served = 2
    /\ \E c \in comments : c.id = resp.req.id /\ c.id /= "c0"

\* C16 as claimed: the error string of a POST /follows whose insert failed is the
\* one the handler would answer for any other failure of the store: it does not
\* vary with the store's error detail.
C16_GenericStoreErrors ==
    (/\ resp.req.op = "POST /follows"
     /\ \E i \in 1..Len(resp.calls) :
           resp.calls[i].call = "follows.insert" /\ resp.calls[i].result /= "ok")
    => \A result \in {"error", "23503", "23505"} : FollowError(result) = resp.error

\* The posts of the two pages, first page first.
TwoPages == resp.data \o resp'.data

\* C17: GET /posts with offset 0 and, with no insert between, GET /posts with
\* the same limit and userId and the offset equal to the limit return pages that
\* share no post id and together are the limit + limit newest posts (of that
\* user, when userId is given), in descending order of creation time.
C17_PagesDisjointContiguous ==
    [][(/\ resp.req.op = "GET /posts"
        /\ resp.status = 200
        /\ resp.req.offset = 0
        /\ resp' /= resp
        /\ resp'.req.op = "GET /posts"
        /\ resp'.status = 200
        /\ resp'.req.limit = resp.req.limit
        /\ resp'.req.offset = resp.req.limit
        /\ resp'.req.id = resp.req.id)
       => LET both == TwoPages
              ids == {both[i].id : i \in 1..Len(both)}
              wanted == {p \in posts : resp.req.id = NoId \/ p.user_id = resp.req.id}
          IN  /\ \A i, j \in 1..Len(both) : i /= j => both[i].id /= both[j].id
              /\ \A i \in 1..Len(resp.data), j \in 1..Len(resp'.data) :
                    resp.data[i].id /= resp'.data[j].id
              /\ \A i, j \in 1..Len(both) : i < j => both[i].created_at > both[j].created_at
              /\ ids \subseteq {p.id : p \in wanted}
              /\ Len(resp.data) = Min(resp.req.limit, Cardinality(wanted))
              /\ Len(both) = Min(2 * resp.req.limit, Cardinality(wanted))
              /\ \A p \in wanted : p.id \notin ids =>
                    \A i \in 1..Len(both) : p.created_at < both[i].created_at]_vars

C17_Witness ==
    /\ resp.req.op = "GET /posts"
    /\ resp.status = 200
    /\ resp.req.limit = 10
    /\ resp.req.offset = 10
    /\ resp.req.id = "u1"
    /\ Len(resp.data) = 2

\* list holds the n newest comments of the post (all of them when n is 0),
\* newest first.
IsNewestOf(list, postId, n) ==
    LET all == {c \in comments : c.post_id = postId}
        ids == {list[i].id : i \in 1..Len(list)}
    IN  /\ Len(list) = IF n = 0 THEN Cardinality(all) ELSE Min(n, Cardinality(all))
        /\ \A i \in 1..Len(list) :
              \E c \in all : /\ c.id = list[i].id
                             /\ c.created_at = list[i].created_at
                             /\ c.content = list[i].content
        /\ \A i, j \in 1..Len(list) : i < j => list[i].created_at > list[j].created_at
        /\ \A c \in all : c.id \notin ids =>
              \A i \in 1..Len(list) : c.created_at < list[i].created_at

LikeAccepted == likeButton'.clicks = likeButton.clicks + 1 /\ ~likeButton.isProcessing
FollowAccepted == followButton'.clicks = followButton.clicks + 1 /\ ~followButton.isLoading

\* C19 as claimed: a toggle of either button flips the local state (and the
\* count) at once, before its request completes, and an outcome that is not a
\* success leaves the state and the count at their values from before the toggle.
C19_OptimisticToggle ==
    [][/\ LikeAccepted =>
             /\ likeButton'.isLiked = ~likeButton.isLiked
             /\ likeButton'.likesCount /= likeButton.likesCount
             /\ likeButton'.pending /= <<>>
       /\ FollowAccepted =>
             /\ followButton'.isFollowing = ~followButton.isFollowing
             /\ followButton'.pending /= <<>>
       /\ \A i \in 1..Len(likeButton.pending) :
             (likeButton.pending[i].phase = "fetching"
                  /\ (\/ Len(likeButton'.pending) < Len(likeButton.pending)
                      \/ likeButton'.pending[i].phase = "rolled back")
                  /\ likeButton'.isLiked /= likeButton.isLiked)
             => /\ likeButton'.isLiked = ~likeButton.pending[i].newLiked
                /\ likeButton'.likesCount = likeButton.pending[i].likesCount]_vars

LikeFailed ==
    /\ likeButton'.clicks = likeButton.clicks
    /\ likeButton'.isLiked /= likeButton.isLiked
    /\ \E i \in 1..Len(likeButton.pending) : likeButton.pending[i].phase = "fetching"

\* The step is a handleFollow that ends after a fetch that failed.
FollowFailed ==
    /\ Len(followButton'.pending) < Len(followButton.pending)
    /\ followButton'.isFollowing = followButton.isFollowing

\* C21 as claimed: every like, unlike, follow or unfollow call that fails shows
\* the user a message, besides setting the state back.
C21_FailuresShown ==
    [][/\ LikeFailed => likeButton'.alerts = likeButton.alerts + 1
       /\ FollowFailed => followButton'.alerts = followButton.alerts + 1]_vars

\* C22: whatever the order in which the store applies the upserts and deletes of
\* POST /likes and DELETE /likes to a (post, user) pair, the pair never has more
\* than one Like row, and the row is there exactly when the write applied last
\* to the pair is an upsert.
C22_LastLikeWriteWins ==
    /\ \A pair \in DOMAIN likes : likes[pair] <= 1
    /\ \A pair \in LikedPairs :
          LET h == PairOps(pair)
          IN  Rows(likes, pair) = IF h[Len(h)].op = "POST /likes" THEN 1 ELSE 0

C22_Witness ==
    \E pair \in LikedPairs :
        /\ EndsWith(pair, <<"POST /likes", "POST /likes", "DELETE /likes">>)
        /\ Rows(likes, pair) = 0

\* C23: a POST /likes whose upsert the store refused with code 23505 is answered
\* 409 "Already liked", not 500, and the rows of likes are as they were.
C23_DuplicateLikeIs409 ==
    [][(Answers("POST /likes") /\ Called(resp', "likes.upsert", "error 23505"))
       => /\ resp'.status = 409
          /\ resp'.error = "Already liked"
          /\ likes' = likes]_vars

C23_Witness ==
    /\ resp.req.op = "POST /likes"
    /\ Called(resp, "likes.upsert", "error 23505")
    /\ resp.status = 409
    /\ Rows(likes, <<resp.req.id, ActorOf(resp)>>) = 1

\* C24: a POST /follows that reaches its existence check with the pair's Follow
\* row there is answered 400 "Already following this user" with no insert
\* attempted and the rows of follows as they were, the pair keeping one row; a
\* request goes on to its insert only from a check that found no row.
C24_DuplicateFollowRejected ==
    [][/\ (/\ Answers("POST /follows")
            /\ UNCHANGED inflight
            /\ Called(resp', "users.select", "ok")
            /\ resp'.req.parses
            /\ NoCallFailed(resp')
            /\ Rows(follows, <<ActorOf(resp'), resp'.req.id>>) > 0)
           => /\ resp'.status = 400
              /\ resp'.error = "Already following this user"
              /\ ~Attempted(resp', "follows.insert")
              /\ follows' = follows
              /\ Rows(follows', <<ActorOf(resp'), resp'.req.id>>) = 1
       /\ \A p \in Procs :
              (inflight[p].pc = "idle" /\ inflight'[p].pc = "checked")
                  => Rows(follows, <<inflight'[p].followerId, inflight'[p].req.id>>) = 0]_vars

C24_Witness ==
    /\ resp.req.op = "POST /follows"
    /\ resp.status = 400
    /\ resp.error = "Already following this user"
    /\ Rows(follows, <<ActorOf(resp), resp.req.id>>) = 1
    /\ \A p \in Procs : inflight[p].pc = "idle"

\* C25 as claimed: an invocation that ends in "Cannot follow yourself" has made
\* no call to the store.
C25_SelfFollowBeforeStore ==
    (resp.req.op = "POST /follows" /\ resp.error = "Cannot follow yourself")
        => resp.calls = <<>>

C28_CardAgreesWithStore ==
    (likeButton.clicks > 0 /\ likeButton.pending = <<>>)
        => /\ likeButton.isLiked <=> Rows(likes, <<"p0", UsersTable[Viewer]>>) > 0
           /\ likeButton.likesCount = BagCardinality(LikesOf("p0"))

\* The JSON body of the response declares success: false.
DeclaresFailure(response) ==
    /\ IsJson(response.contentType)
    /\ response.body.kind = "object"
    /\ response.body.success = "false"

\* C30 as claimed: handleApiResponse returns success only for a response that
\* is ok and whose JSON body does not declare success: false, and for every
\* response that is not ok, and every body with success: false, it returns a
\* failure with an error that is not empty.
C30_SuccessOnlyWhenOk ==
    api.done =>
        /\ api.result.success => (Ok(api.response.status) /\ ~DeclaresFailure(api.response))
        /\ (~Ok(api.response.status) \/ DeclaresFailure(api.response))
              => (~api.result.success /\ api.result.error /= "")

\* The step ends an invocation of fetchPosts.
FetchEnded == Len(postFeed'.pending) < Len(postFeed.pending)

\* The step is the observer's callback calling fetch.
ObserverFetched ==
    /\ Len(postFeed'.pending) > Len(postFeed.pending)
    /\ postFeed'.pending[Len(postFeed'.pending)].by = "observer"

C27_OneFetchNoDuplicates ==
    /\ Len(postFeed.pending) <= 1
    /\ \A i, j \in 1..Len(postFeed.posts) : postFeed.posts[i] = postFeed.posts[j] => i = j
    /\ postFeed.offset = Len(postFeed.posts)

====
